---- MODULE Spec2Model ----
(***************************************************************************)
(* Model of the loot-split tool of the Tibia agent                         *)
(* (src/agent/tools/split_loot.py): the line parser                        *)
(* _parse_session_data, the settlement engine _calculate_split and the     *)
(* entry point execute with its database collaborator.                     *)
(*                                                                         *)
(* A Python str is a sequence of one-character strings, so that            *)
(* startswith, lower, strip, split, replace and int() are computed the way *)
(* the code computes them.  A Python dict is a sequence of entries in      *)
(* insertion order.  Amounts inside _calculate_split are exact rationals   *)
(* held as numerators over num_players: fair_share = net_profit /          *)
(* num_players is the numerator net_profit, an integer balance b is        *)
(* b * num_players, and int(x) is the numerator divided by num_players.    *)
(* On the value ranges explored here the float arithmetic of the code is   *)
(* exact up to truncation, so both give the same transfer lines.           *)
(***************************************************************************)
EXTENDS Integers, Sequences, FiniteSets, TLC

(* ------------------------------ bounds --------------------------------- *)
MaxPlayers == 3
MaxLines == 4
MaxParseLines == 3
MaxTools == 2

(* --------------------------- str primitives ---------------------------- *)
Digits == <<"0","1","2","3","4","5","6","7","8","9">>
UpperCase == <<"A","B","C","D","E","F","G","H","I","J","K","L","M","N","O","P","Q","R","S","T","U","V","W","X","Y","Z">>
LowerCase == <<"a","b","c","d","e","f","g","h","i","j","k","l","m","n","o","p","q","r","s","t","u","v","w","x","y","z">>
Whitespace == {" ", "\t", "\n", "\r"}

IsDigitCh(c) == \E k \in 1..Len(Digits) : Digits[k] = c
DigitVal(c) == (CHOOSE k \in 1..Len(Digits) : Digits[k] = c) - 1

LowerCh(c) ==
  IF \E k \in 1..Len(UpperCase) : UpperCase[k] = c
  THEN LowerCase[CHOOSE k \in 1..Len(UpperCase) : UpperCase[k] = c]
  ELSE c

lower(s) == [k \in 1..Len(s) |-> LowerCh(s[k])]

startswith(s, p) == Len(s) >= Len(p) /\ SubSeq(s, 1, Len(p)) = p

contains(s, sub) ==
  \E k \in 1..(Len(s) - Len(sub) + 1) : SubSeq(s, k, k + Len(sub) - 1) = sub

RECURSIVE lstrip(_)
lstrip(s) == IF s # <<>> /\ Head(s) \in Whitespace THEN lstrip(Tail(s)) ELSE s

RECURSIVE rstrip(_)
rstrip(s) ==
  IF s # <<>> /\ s[Len(s)] \in Whitespace
  THEN rstrip(SubSeq(s, 1, Len(s) - 1)) ELSE s

strip(s) == rstrip(lstrip(s))

\* s.split(sep) for a one-character separator: always at least one piece
RECURSIVE split(_, _)
split(s, sep) ==
  IF ~ \E k \in 1..Len(s) : s[k] = sep THEN <<s>>
  ELSE LET k == CHOOSE j \in 1..Len(s) :
                  s[j] = sep /\ \A m \in 1..(j - 1) : s[m] # sep
       IN  <<SubSeq(s, 1, k - 1)>> \o split(SubSeq(s, k + 1, Len(s)), sep)

\* s.split(sep, 1): the text before and after the first separator
split1(s, sep) ==
  LET k == CHOOSE j \in 1..Len(s) :
             s[j] = sep /\ \A m \in 1..(j - 1) : s[m] # sep
  IN  <<SubSeq(s, 1, k - 1), SubSeq(s, k + 1, Len(s))>>

\* s.replace(old, new), non-overlapping occurrences from the left
RECURSIVE replace(_, _, _)
replace(s, old, new) ==
  IF s = <<>> THEN <<>>
  ELSE IF startswith(s, old)
       THEN new \o replace(SubSeq(s, Len(old) + 1, Len(s)), old, new)
       ELSE <<Head(s)>> \o replace(Tail(s), old, new)

isdigit(s) == s # <<>> /\ \A k \in 1..Len(s) : IsDigitCh(s[k])

\* re.match(r'\d{2}:\d{2}h', s): anchored at the start of s only
time_pattern(s) ==
  /\ Len(s) >= 6
  /\ IsDigitCh(s[1]) /\ IsDigitCh(s[2]) /\ s[3] = ":"
  /\ IsDigitCh(s[4]) /\ IsDigitCh(s[5]) /\ s[6] = "h"

\* int(s): surrounding whitespace and one sign are accepted, then digits;
\* anything else is a ValueError
IntBody(s) ==
  LET t == strip(s)
  IN  IF t # <<>> /\ Head(t) \in {"+", "-"} THEN Tail(t) ELSE t

IsIntLiteral(s) == isdigit(IntBody(s))

RECURSIVE DigitsValue(_)
DigitsValue(s) ==
  IF s = <<>> THEN 0
  ELSE 10 * DigitsValue(SubSeq(s, 1, Len(s) - 1)) + DigitVal(s[Len(s)])

py_int(s) ==
  LET t == strip(s)
  IN  IF t # <<>> /\ Head(t) = "-" THEN 0 - DigitsValue(IntBody(s))
      ELSE DigitsValue(IntBody(s))

\* str(n) for an integer n
RECURSIVE NatStr(_)
NatStr(n) ==
  IF n < 10 THEN <<Digits[n + 1]>>
  ELSE NatStr(n \div 10) \o <<Digits[(n % 10) + 1]>>

py_str(n) == IF n < 0 THEN <<"-">> \o NatStr(0 - n) ELSE NatStr(n)

(* ------------------------------ values --------------------------------- *)
\* a parsed stat value: an int, or the raw text that int() rejected
IntV(n) == [tag |-> "int", val |-> n]
StrV(s) == [tag |-> "str", val |-> s]

None == <<"None">>

\* dict helpers: a dict is a sequence of [key, value] entries
HasKey(d, k) == \E j \in 1..Len(d) : d[j].key = k
Lookup(d, k) == d[CHOOSE j \in 1..Len(d) : d[j].key = k].value
get(d, k, default) == IF HasKey(d, k) THEN Lookup(d, k) ELSE default
\* d[k] = v keeps the position of an existing key
setitem(d, k, v) ==
  IF HasKey(d, k)
  THEN [j \in 1..Len(d) |-> IF d[j].key = k THEN [key |-> k, value |-> v] ELSE d[j]]
  ELSE Append(d, [key |-> k, value |-> v])
keys(d) == [j \in 1..Len(d) |-> d[j].key]

(* ----------------------------- literals -------------------------------- *)
SessionDataPrefix == <<"S","e","s","s","i","o","n"," ","d","a","t","a",":">>
SessionPrefix == <<"S","e","s","s","i","o","n",":">>
LootTypePrefix == <<"L","o","o","t"," ","T","y","p","e",":">>
LootPrefix == <<"L","o","o","t",":">>
SuppliesPrefix == <<"S","u","p","p","l","i","e","s",":">>
BalancePrefix == <<"B","a","l","a","n","c","e",":">>
DamagePrefix == <<"D","a","m","a","g","e",":">>
HealingPrefix == <<"H","e","a","l","i","n","g",":">>
DatePattern == <<"f","r","o","m"," ","2","0">>
LeaderTag == <<"(","L","e","a","d","e","r",")">>
LeaderWord == <<"l","e","a","d","e","r">>
K_loot == <<"l","o","o","t">>
K_supplies == <<"s","u","p","p","l","i","e","s">>
K_balance == <<"b","a","l","a","n","c","e">>
K_damage == <<"d","a","m","a","g","e">>
K_healing == <<"h","e","a","l","i","n","g">>

TotalPrefixes == {LootPrefix, SuppliesPrefix, BalancePrefix}
StatPrefixes ==
  {LootPrefix, SuppliesPrefix, BalancePrefix, DamagePrefix, HealingPrefix}

\* 'session', 'loot type', 'from 20', and 'leader' only when line == 'leader'
session_keywords(line) ==
  {<<"s","e","s","s","i","o","n">>, <<"l","o","o","t"," ","t","y","p","e">>, DatePattern}
    \cup (IF line = LeaderWord THEN {LeaderWord} ELSE {})

(* ------------------------------ inputs --------------------------------- *)
\* the lines a session dump is made of in this model
LineCatalogue ==
  { <<"S","e","s","s","i","o","n",":"," ","0","1",":","1","0","h">>,
    <<"L","o","o","t",":"," ","3","0","0">>,
    <<"L","o","o","t",":"," ","a","b","c">>,
    <<"S","u","p","p","l","i","e","s",":"," ","1">>,
    <<"B","a","l","a","n","c","e",":"," ","3","0","0">>,
    <<"B","a","l","a","n","c","e",":"," ","-","1">>,
    <<"A","l"," ","(","L","e","a","d","e","r",")">>,
    <<"B","o","b">>,
    <<>> }

\* the lines of the dumps given to the parser alone: header, stat and name
\* lines, a one-character name, a digits-only token and lower-case keywords
ParseCatalogue ==
  { <<"S","e","s","s","i","o","n",":"," ","0","1",":","1","0","h">>,
    <<"L","o","o","t",":"," ","3","0","0">>,
    <<"D","a","m","a","g","e",":"," ","5">>,
    <<"B","o","b">>,
    <<"A","l"," ","(","L","e","a","d","e","r",")">>,
    <<"X">>,
    <<"7","7">>,
    <<"l","o","o","t",":"," ","1","0","0">>,
    <<"s","e","s","s","i","o","n",":"," ","2","h">> }

RECURSIVE join(_)
join(ls) ==
  IF ls = <<>> THEN <<>>
  ELSE IF Len(ls) = 1 THEN ls[1]
  ELSE ls[1] \o <<"\n">> \o join(Tail(ls))

\* execute(session_data, db): no db, or a db handle
DbInputs == {"None", "db"}

\* single-line inputs longer than this take the line-reconstruction path
ReconstructThreshold == 100

NamePool == << <<"A">>, <<"B">>, <<"C">>, <<"D">> >>
\* per-player values of a directly given player map
LootValues == {0, 300}
SuppliesValues == {0, 1}
BalanceValues == {0 - 1, 0, 1, 300}

PlayerData(l, s, b) ==
  << [key |-> K_loot, value |-> IntV(l)],
     [key |-> K_supplies, value |-> IntV(s)],
     [key |-> K_balance, value |-> IntV(b)] >>

\* a player map with integer fields, names inserted in NamePool order
PlayerMap(n, f) ==
  [j \in 1..n |-> [key |-> NamePool[j],
                   value |-> PlayerData(f[j][1], f[j][2], f[j][3])]]

(* ------------------------------- state --------------------------------- *)
VARIABLES
  pc,                 \* position of the call
  session_data, db,   \* arguments of execute
  lines, line_no,     \* _parse_session_data: the lines and the loop index
  players, session_info, loot_type, current_player, in_session_header,
  total_loot, total_supplies, net_profit, num_players, fair_share,
  player_balances, payers, receivers, payer_idx, receiver_idx,
  transfers,          \* the transfer lines
  ledger,             \* payer, int amount and receiver written into each line
  exc,                \* message of the exception in flight
  retval,             \* value of a return statement inside the try block
  result,             \* execute's local result
  returned,           \* what execute handed to its caller
  stored,             \* document handed to insert_one
  chat_pc,            \* position of a run of TibiaAgent.chat
  iteration,          \* chat: the loop counter
  tool_uses,          \* chat: tool calls of the response not yet executed
  model_calls,        \* calls of client.messages.create made by the loop
  fallback_calls,     \* calls of _get_fallback_response
  progress_events,    \* events of type progress yielded so far
  result_events,      \* events of type result yielded so far
  last_event,         \* type of the last event yielded
  result_content      \* which content the result event carries

parse_vars ==
  <<lines, line_no, players, session_info, loot_type, current_player,
    in_session_header>>
split_vars ==
  <<total_loot, total_supplies, net_profit, num_players, fair_share,
    player_balances, payers, receivers, payer_idx, receiver_idx,
    transfers, ledger>>
call_vars == <<session_data, db, retval, result, returned, stored>>
chat_vars ==
  <<chat_pc, iteration, tool_uses, model_calls, fallback_calls,
    progress_events, result_events, last_event, result_content>>
vars == <<pc, parse_vars, split_vars, exc, call_vars, chat_vars>>

Unset == <<"unset">>
NoException == ""

\* execute's result object: keys is the set of keys the dict holds, a field
\* outside keys is a placeholder
EmptySummary ==
  [total_loot |-> 0, total_supplies |-> 0, net_profit |-> 0,
   loot_type |-> <<>>, session_info |-> <<>>]
EmptyDict ==
  [keys |-> {}, success |-> FALSE, error |-> <<>>, message |-> Unset,
   transfers |-> <<>>, damage_healing_data |-> <<>>,
   session_summary |-> EmptySummary, players_parsed |-> <<>>]

InitSplitVars ==
  /\ total_loot = 0 /\ total_supplies = 0 /\ net_profit = 0
  /\ num_players = 0 /\ fair_share = [num |-> 0, den |-> 1]
  /\ player_balances = <<>> /\ payers = <<>> /\ receivers = <<>>
  /\ payer_idx = 0 /\ receiver_idx = 0
  /\ transfers = <<>> /\ ledger = <<>>

InitCallVars ==
  /\ session_data = Unset /\ db = "None"
  /\ retval = EmptyDict /\ result = EmptyDict /\ returned = EmptyDict
  /\ stored = EmptyDict /\ exc = NoException

\* no run of chat has started
InitChatVars ==
  /\ chat_pc = "idle" /\ iteration = 0 /\ tool_uses = 0
  /\ model_calls = 0 /\ fallback_calls = 0
  /\ progress_events = 0 /\ result_events = 0 /\ last_event = "none"
  /\ result_content = "none"

\* the tool after construction, before a call of execute
Init ==
  /\ pc = "idle"
  /\ lines = <<>> /\ line_no = 0 /\ players = <<>>
  /\ session_info = <<>> /\ loot_type = <<>>
  /\ current_player = None /\ in_session_header = TRUE
  /\ InitSplitVars /\ InitCallVars /\ InitChatVars

\* _calculate_split called directly on a player map
InitSplit ==
  /\ pc = "split"
  /\ \E n \in 1..MaxPlayers :
       \E f \in [1..n -> LootValues \X SuppliesValues \X BalanceValues] :
         players = PlayerMap(n, f)
  /\ lines = <<>> /\ line_no = 0
  /\ session_info = <<>> /\ loot_type = <<>>
  /\ current_player = None /\ in_session_header = TRUE
  /\ InitSplitVars /\ InitCallVars /\ InitChatVars

(* ------------------------- execute: entry ------------------------------ *)
NoneLenMessage == "object of type 'NoneType' has no len()"

\* lines 250-256 and 34-81: len(session_data) raises on None; otherwise the
\* text is stripped and split and the parser state is initialised
ExecuteCall(sd, d) ==
  /\ session_data' = sd /\ db' = d
  /\ result' = EmptyDict
  /\ IF sd = None
     THEN /\ exc' = NoneLenMessage
          /\ pc' = "except"
          /\ UNCHANGED parse_vars
     ELSE /\ LET ls == split(strip(sd), "\n")
             IN  ~ (Len(ls) = 1 /\ Len(sd) > ReconstructThreshold)
          /\ lines' = split(strip(sd), "\n")
          /\ line_no' = 1
          /\ players' = <<>> /\ session_info' = <<>> /\ loot_type' = <<>>
          /\ current_player' = None /\ in_session_header' = TRUE
          /\ exc' = NoException
          /\ pc' = "parse"
  /\ UNCHANGED <<split_vars, retval, returned, stored>>
  /\ UNCHANGED chat_vars

\* a call of execute: session_data is None or a text of up to MaxLines
\* catalogue lines joined by newlines
Execute ==
  /\ pc = "idle"
  /\ \E d \in DbInputs :
       \/ ExecuteCall(None, d)
       \/ \E n \in 0..MaxLines :
            \E ls \in [1..n -> LineCatalogue] : ExecuteCall(join(ls), d)

\* a call of execute without a database on a text of 1..MaxParseLines lines
\* of the parser catalogue
ParseCall ==
  /\ pc = "idle"
  /\ \E n \in 1..MaxParseLines :
       \E ls \in [1..n -> ParseCatalogue] : ExecuteCall(join(ls), "None")

(* --------------------- _parse_session_data: loop ----------------------- *)
CurLine == strip(lines[line_no])

IsSessionInfo(line) ==
  \/ startswith(line, SessionDataPrefix)
  \/ startswith(line, SessionPrefix)
  \/ contains(lower(line), DatePattern)
  \/ time_pattern(line)
  \/ startswith(line, LootTypePrefix)

\* mutant: totals are recognised only before the first player is opened
IsSessionTotalBeforePlayers(line, header) ==
  header /\ players = <<>> /\ \E p \in TotalPrefixes : startswith(line, p)

\* line 102
IsSessionTotal(line, header) ==
  header /\ \E p \in TotalPrefixes : startswith(line, p)

IsStatLine(line) == \E p \in StatPrefixes : startswith(line, p)

\* lines 88-99
ParseSessionInfo ==
  /\ pc = "parse" /\ line_no <= Len(lines)
  /\ IsSessionInfo(CurLine)
  /\ session_info' = session_info \o CurLine \o <<"\n">>
  /\ loot_type' = IF startswith(CurLine, LootTypePrefix)
                  THEN strip(split1(CurLine, ":")[2]) ELSE loot_type
  /\ in_session_header' = TRUE
  /\ line_no' = line_no + 1
  /\ UNCHANGED <<pc, lines, players, current_player, split_vars, exc, call_vars>>
  /\ UNCHANGED chat_vars

\* lines 102-106
ParseSessionTotal ==
  /\ pc = "parse" /\ line_no <= Len(lines)
  /\ ~ IsSessionInfo(CurLine)
  /\ IsSessionTotal(CurLine, in_session_header)
  /\ session_info' = session_info \o CurLine \o <<"\n">>
  /\ line_no' = line_no + 1
  /\ UNCHANGED <<pc, lines, players, loot_type, current_player,
                 in_session_header, split_vars, exc, call_vars>>
  /\ UNCHANGED chat_vars

\* lines 116-126: the value with its commas removed, as an int when int()
\* accepts it and as the raw text otherwise
ParseValue(raw) ==
  LET value == replace(strip(raw), <<",">>, <<>>)
  IN  IF startswith(value, <<"-">>)
      THEN IF IsIntLiteral(Tail(value))
           THEN IntV(0 - py_int(Tail(value))) ELSE StrV(value)
      ELSE IF IsIntLiteral(value) THEN IntV(py_int(value)) ELSE StrV(value)

\* lines 109-126
ParseStatLine ==
  /\ pc = "parse" /\ line_no <= Len(lines)
  /\ ~ IsSessionInfo(CurLine)
  /\ ~ IsSessionTotal(CurLine, in_session_header)
  /\ IsStatLine(CurLine)
  /\ in_session_header' = FALSE
  /\ players' =
       IF current_player # None /\ current_player # <<>>
          /\ contains(CurLine, <<":">>)
       THEN LET kv == split1(CurLine, ":")
                key == lower(strip(kv[1]))
            IN  setitem(players, current_player,
                        setitem(Lookup(players, current_player), key,
                                ParseValue(kv[2])))
       ELSE players
  /\ line_no' = line_no + 1
  /\ UNCHANGED <<pc, lines, session_info, loot_type, current_player,
                 split_vars, exc, call_vars>>
  /\ UNCHANGED chat_vars

\* lines 133-144: may this line open a player record
IsPlayerCandidate(line) ==
  /\ line # <<>>
  /\ ~ \E k \in session_keywords(line) : contains(lower(line), k)
  /\ ~ IsStatLine(line)
  /\ ~ time_pattern(line)

\* line 155
CleanName(line) == strip(replace(line, LeaderTag, <<>>))

\* mutant: a one-character name is accepted
IsUsableNameAnyLength(player_name) == Len(player_name) > 0

\* line 156
IsUsableName(player_name) == Len(player_name) > 1

\* mutant: an existing record of the same name is kept
OpenRecordMerging(ps, name) ==
  IF HasKey(ps, name) THEN ps ELSE setitem(ps, name, <<>>)

\* line 158
OpenRecord(ps, name) == setitem(ps, name, <<>>)

\* lines 129-161
ParsePlayerName ==
  /\ pc = "parse" /\ line_no <= Len(lines)
  /\ ~ IsSessionInfo(CurLine)
  /\ ~ IsSessionTotal(CurLine, in_session_header)
  /\ ~ IsStatLine(CurLine)
  /\ line_no' = line_no + 1
  /\ IF IsPlayerCandidate(CurLine)
        /\ ~ (in_session_header /\ (isdigit(CurLine) \/ CurLine = LeaderWord))
     THEN LET player_name == CleanName(CurLine)
          IN  /\ in_session_header' = FALSE
              /\ IF IsUsableName(player_name)
                 THEN /\ current_player' = player_name
                      /\ players' = OpenRecord(players, player_name)
                 ELSE UNCHANGED <<current_player, players>>
     ELSE UNCHANGED <<in_session_header, current_player, players>>
  /\ UNCHANGED <<pc, lines, session_info, loot_type, split_vars, exc, call_vars>>
  /\ UNCHANGED chat_vars

NoPlayersResult ==
  [EmptyDict EXCEPT !.keys = {"success", "error", "transfers"},
                    !.success = FALSE,
                    !.error = <<"No player data found in the session data">>,
                    !.transfers = <<>>]

\* lines 163-164 and 256-266: the parser returns; with no players execute
\* returns the no-player object from inside the try block
ParseReturn ==
  /\ pc = "parse" /\ line_no > Len(lines)
  /\ IF players = <<>>
     THEN /\ retval' = NoPlayersResult
          /\ pc' = "finally"
     ELSE /\ retval' = retval
          /\ pc' = "split"
  /\ UNCHANGED <<parse_vars, split_vars, exc, session_data, db, result,
                 returned, stored>>
  /\ UNCHANGED chat_vars


(* -------------------------- _calculate_split --------------------------- *)
PlusTypeError == "unsupported operand type(s) for +: 'int' and 'str'"
MinusTypeError == "unsupported operand type(s) for -: 'float' and 'str'"

\* player_data.get(field, 0) over players.values(), in insertion order
FieldValues(ps, field) ==
  [j \in 1..Len(ps) |-> get(ps[j].value, field, IntV(0))]

AllInts(vs) == \A j \in 1..Len(vs) : vs[j].tag = "int"

RECURSIVE sum(_)
sum(vs) == IF vs = <<>> THEN 0 ELSE vs[1].val + sum(Tail(vs))

\* line 174
NetProfit(loot, supplies) == loot - supplies

\* mutant: the divisor counts one player too many
NumPlayersOffByOne(ps) == Len(ps) + 1

\* line 177
NumPlayers(ps) == Len(ps)

\* lines 189, 193, 194, as numerators over n: fair_share - current_balance
\* mutant: the sign of the difference is reversed
DifferenceReversed(net, n, balance) == n * balance - net

Difference(net, n, balance) == net - n * balance
NeedsToReceive(difference) == IF difference > 0 THEN difference ELSE 0
NeedsToPay(difference) == IF difference < 0 THEN 0 - difference ELSE 0

\* lines 186-195
PlayerBalances(ps, net, n) ==
  [j \in 1..Len(ps) |->
     LET current_balance == get(ps[j].value, K_balance, IntV(0)).val
         difference == Difference(net, n, current_balance)
     IN  [key |-> ps[j].key,
          value |-> [current_balance |-> current_balance,
                     fair_share |-> [num |-> net, den |-> n],
                     needs_to_receive |-> NeedsToReceive(difference),
                     needs_to_pay |-> NeedsToPay(difference)]]]

\* mutant: the filter also admits settled players (>= instead of >)
IsOutstandingOrZero(amount) == amount >= 0

\* lines 201-202: the entries whose amount passes the filter, in dict order
IsOutstanding(amount) == amount > 0

RECURSIVE Outstanding(_, _)
Outstanding(pb, field) ==
  IF pb = <<>> THEN <<>>
  ELSE LET amount == IF field = "needs_to_pay"
                     THEN pb[1].value.needs_to_pay
                     ELSE pb[1].value.needs_to_receive
       IN  (IF IsOutstanding(amount)
            THEN <<[name |-> pb[1].key, amount |-> amount]>> ELSE <<>>)
           \o Outstanding(Tail(pb), field)

\* mutant: a sort that puts a later entry before earlier equal ones
InsertDescUnstable(sorted, x) ==
  LET k == Cardinality({j \in 1..Len(sorted) : sorted[j].amount > x.amount})
  IN  SubSeq(sorted, 1, k) \o <<x>> \o SubSeq(sorted, k + 1, Len(sorted))

\* lines 205-206: list.sort(key=amount, reverse=True) is stable, so equal
\* amounts keep their order in the list
InsertDesc(sorted, x) ==
  LET k == Cardinality({j \in 1..Len(sorted) : sorted[j].amount >= x.amount})
  IN  SubSeq(sorted, 1, k) \o <<x>> \o SubSeq(sorted, k + 1, Len(sorted))

RECURSIVE SortDescFrom(_, _)
SortDescFrom(sorted, rest) ==
  IF rest = <<>> THEN sorted
  ELSE SortDescFrom(InsertDesc(sorted, Head(rest)), Tail(rest))

\* mutant: the list is left in dict order
Unsorted(xs) == xs

SortDesc(xs) == SortDescFrom(<<>>, xs)

\* lines 170-206
CalculateSplit ==
  /\ pc = "split"
  /\ LET loots == FieldValues(players, K_loot)
         supplies == FieldValues(players, K_supplies)
         balances == FieldValues(players, K_balance)
         n == NumPlayers(players)
     IN  IF ~ AllInts(loots) \/ ~ AllInts(supplies)
         THEN /\ exc' = PlusTypeError
              /\ pc' = "except"
              /\ UNCHANGED split_vars
         ELSE IF n = 0
         THEN /\ pc' = "summary"
              /\ total_loot' = sum(loots) /\ total_supplies' = sum(supplies)
              /\ net_profit' = NetProfit(sum(loots), sum(supplies))
              /\ num_players' = n
              /\ transfers' = <<>> /\ ledger' = <<>>
              /\ UNCHANGED <<fair_share, player_balances, payers, receivers,
                             payer_idx, receiver_idx, exc>>
         ELSE IF ~ AllInts(balances)
         THEN /\ exc' = MinusTypeError
              /\ pc' = "except"
              /\ UNCHANGED split_vars
         ELSE LET net == NetProfit(sum(loots), sum(supplies))
                  pb == PlayerBalances(players, net, n)
              IN  /\ total_loot' = sum(loots)
                  /\ total_supplies' = sum(supplies)
                  /\ net_profit' = net
                  /\ num_players' = n
                  /\ fair_share' = [num |-> net, den |-> n]
                  /\ player_balances' = pb
                  /\ payers' = SortDesc(Outstanding(pb, "needs_to_pay"))
                  /\ receivers' = SortDesc(Outstanding(pb, "needs_to_receive"))
                  /\ payer_idx' = 0 /\ receiver_idx' = 0
                  /\ transfers' = <<>> /\ ledger' = <<>>
                  /\ exc' = exc
                  /\ pc' = "match"
  /\ UNCHANGED <<parse_vars, call_vars>>
  /\ UNCHANGED chat_vars

\* mutant: max instead of min
TransferAmountMax(payer_amount, receiver_amount) ==
  IF payer_amount >= receiver_amount THEN payer_amount ELSE receiver_amount

\* line 217
TransferAmount(payer_amount, receiver_amount) ==
  IF payer_amount <= receiver_amount THEN payer_amount ELSE receiver_amount

\* line 219
ShouldTransfer(transfer_amount) == transfer_amount > 0

\* int(transfer_amount) of line 220, for a numerator over n
Truncate(amount, n) ==
  IF amount >= 0 THEN amount \div n ELSE 0 - ((0 - amount) \div n)

\* mutant: the remainder is dropped, as if every match settled both sides
RemainingDropped(amount, transfer_amount) == 0

\* lines 223-224
Remaining(amount, transfer_amount) == amount - transfer_amount

\* mutant: an exactly settled entry is not passed over
IsSettledStrict(amount) == amount < 0

\* lines 227, 229
IsSettled(amount) == amount <= 0

\* mutant: payer and receiver swapped in the line
TransferLineSwapped(payer_name, amount, receiver_name) ==
  receiver_name \o <<":"," ","t","r","a","n","s","f","e","r"," ">> \o py_str(amount) \o <<" ","t","o"," ">> \o payer_name

\* line 220
TransferLine(payer_name, amount, receiver_name) ==
  payer_name \o <<":"," ","t","r","a","n","s","f","e","r"," ">> \o py_str(amount) \o <<" ","t","o"," ">> \o receiver_name

\* lines 212-230: one iteration of the matching loop
MatchStep ==
  /\ pc = "match"
  /\ payer_idx < Len(payers) /\ receiver_idx < Len(receivers)
  /\ LET payer == payers[payer_idx + 1]
         receiver == receivers[receiver_idx + 1]
         transfer_amount == TransferAmount(payer.amount, receiver.amount)
         amount == Truncate(transfer_amount, num_players)
         payers2 == IF ShouldTransfer(transfer_amount)
                    THEN [payers EXCEPT ![payer_idx + 1].amount =
                            Remaining(payer.amount, transfer_amount)]
                    ELSE payers
         receivers2 == IF ShouldTransfer(transfer_amount)
                       THEN [receivers EXCEPT ![receiver_idx + 1].amount =
                               Remaining(receiver.amount, transfer_amount)]
                       ELSE receivers
     IN  /\ transfers' = IF ShouldTransfer(transfer_amount)
                         THEN Append(transfers,
                                TransferLine(payer.name, amount, receiver.name))
                         ELSE transfers
         /\ ledger' = IF ShouldTransfer(transfer_amount)
                      THEN Append(ledger, [from |-> payer.name,
                                           amount |-> amount,
                                           to |-> receiver.name])
                      ELSE ledger
         /\ payers' = payers2
         /\ receivers' = receivers2
         /\ payer_idx' = IF IsSettled(payers2[payer_idx + 1].amount)
                         THEN payer_idx + 1 ELSE payer_idx
         /\ receiver_idx' = IF IsSettled(receivers2[receiver_idx + 1].amount)
                            THEN receiver_idx + 1 ELSE receiver_idx
  /\ UNCHANGED <<pc, parse_vars, total_loot, total_supplies, net_profit,
                 num_players, fair_share, player_balances, exc, call_vars>>
  /\ UNCHANGED chat_vars

\* line 232: the loop is over and the transfer lines are returned
SplitReturn ==
  /\ pc = "match"
  /\ ~ (payer_idx < Len(payers) /\ receiver_idx < Len(receivers))
  /\ pc' = "summary"
  /\ UNCHANGED <<parse_vars, split_vars, exc, call_vars>>
  /\ UNCHANGED chat_vars

(* ----------------------- execute: result and exit ---------------------- *)
\* lines 234-246
ExtractDamageHealing(ps) ==
  [j \in 1..Len(ps) |->
     [player |-> ps[j].key,
      damage |-> get(ps[j].value, K_damage, IntV(0)),
      healing |-> get(ps[j].value, K_healing, IntV(0))]]

\* lines 269-287
BuildResult ==
  /\ pc = "summary"
  /\ LET loot == sum(FieldValues(players, K_loot))
         supplies == sum(FieldValues(players, K_supplies))
     IN  result' =
           [keys |-> {"success", "transfers", "damage_healing_data",
                      "session_summary", "players_parsed"},
            success |-> TRUE,
            error |-> <<>>,
            message |-> Unset,
            transfers |-> transfers,
            damage_healing_data |-> ExtractDamageHealing(players),
            session_summary |->
              [total_loot |-> loot, total_supplies |-> supplies,
               net_profit |-> NetProfit(loot, supplies),
               loot_type |-> loot_type,
               session_info |-> strip(session_info)],
            players_parsed |-> keys(players)]
  /\ pc' = "finally"
  /\ UNCHANGED <<parse_vars, split_vars, exc, session_data, db, retval,
                 returned, stored>>
  /\ UNCHANGED chat_vars

\* lines 289-296
ExceptHandler ==
  /\ pc = "except"
  /\ result' =
       [EmptyDict EXCEPT
          !.keys = {"success", "error", "message", "transfers"},
          !.success = FALSE,
          !.error = <<"Failed to process loot split: ", exc>>,
          !.message = session_data,
          !.transfers = <<>>]
  /\ exc' = NoException
  /\ pc' = "finally"
  /\ UNCHANGED <<parse_vars, split_vars, session_data, db, retval, returned,
                 stored>>
  /\ UNCHANGED chat_vars

\* lines 297-300 and 302-310: the finally block stores a copy of result and
\* then returns result, whatever the try block was returning
Finally ==
  /\ pc = "finally"
  /\ stored' = IF db = "None" THEN stored
               ELSE [result EXCEPT !.keys = @ \cup {"created_at"}]
  /\ returned' = result
  /\ pc' = "returned"
  /\ UNCHANGED <<parse_vars, split_vars, exc, session_data, db, retval, result>>
  /\ UNCHANGED chat_vars

InsertError == "insert_one failed"

\* line 308: insert_one raises inside the finally block, before line 300
FinallyInsertRaises ==
  /\ pc = "finally"
  /\ db # "None"
  /\ exc' = InsertError
  /\ pc' = "raised"
  /\ UNCHANGED <<parse_vars, split_vars, session_data, db, retval, result,
                 returned, stored>>
  /\ UNCHANGED chat_vars

(* --------------------------- specifications ---------------------------- *)
Next ==
  \/ Execute
  \/ ParseSessionInfo
  \/ ParseSessionTotal
  \/ ParseStatLine
  \/ ParsePlayerName
  \/ ParseReturn
  \/ CalculateSplit
  \/ MatchStep
  \/ SplitReturn
  \/ BuildResult
  \/ ExceptHandler
  \/ Finally
  \/ FinallyInsertRaises

Spec == Init /\ [][Next]_vars

NextSplit == CalculateSplit \/ MatchStep \/ SplitReturn

SpecSplit == InitSplit /\ [][NextSplit]_vars

\* execute up to the return of _parse_session_data
NextParse ==
  \/ ParseCall
  \/ ParseSessionInfo
  \/ ParseSessionTotal
  \/ ParseStatLine
  \/ ParsePlayerName
  \/ ParseReturn

SpecParse == Init /\ [][NextParse]_vars

(* ---------------------------- TibiaAgent.chat --------------------------- *)
\* agent.py line 14
max_iterations == 18

tool_vars == <<pc, parse_vars, split_vars, exc, call_vars>>

YieldProgress ==
  /\ progress_events' = progress_events + 1
  /\ last_event' = "progress"
  /\ UNCHANGED <<result_events, result_content>>

YieldResult(content) ==
  /\ result_events' = result_events + 1
  /\ last_event' = "result"
  /\ result_content' = content
  /\ UNCHANGED progress_events

\* lines 107-113
ChatStart ==
  /\ chat_pc = "idle"
  /\ YieldProgress
  /\ iteration' = 0
  /\ chat_pc' = "loop"
  /\ UNCHANGED <<tool_uses, model_calls, fallback_calls, tool_vars>>

\* mutant: the loop runs once more
LoopContinuesInclusive(i) == i <= max_iterations

\* line 115
LoopContinues(i) == i < max_iterations

\* lines 115-117
ChatIterate ==
  /\ chat_pc = "loop"
  /\ LoopContinues(iteration)
  /\ iteration' = iteration + 1
  /\ YieldProgress
  /\ chat_pc' = "model"
  /\ UNCHANGED <<tool_uses, model_calls, fallback_calls, tool_vars>>

\* lines 127-166 and 202-213: the response has no tool_use block; its text,
\* or the greeting when it has none, is the result and chat returns
ChatModelAnswers ==
  /\ chat_pc = "model"
  /\ model_calls' = model_calls + 1
  /\ \E content \in {"text", "greeting"} : YieldResult(content)
  /\ chat_pc' = "done"
  /\ UNCHANGED <<iteration, tool_uses, fallback_calls, tool_vars>>

\* lines 127-169: the response has 1..MaxTools tool_use blocks
ChatModelRequestsTools ==
  /\ chat_pc = "model"
  /\ model_calls' = model_calls + 1
  /\ \E k \in 1..MaxTools : tool_uses' = k
  /\ YieldProgress
  /\ chat_pc' = "tools"
  /\ UNCHANGED <<iteration, fallback_calls, tool_vars>>

\* lines 127 and 227-228: messages.create raises an Exception
ChatModelCallRaises ==
  /\ chat_pc = "model"
  /\ model_calls' = model_calls + 1
  /\ YieldResult("error")
  /\ chat_pc' = "done"
  /\ UNCHANGED <<iteration, tool_uses, fallback_calls, tool_vars>>

\* lines 175-180
ChatAnnounceTool ==
  /\ chat_pc = "tools" /\ tool_uses > 0
  /\ YieldProgress
  /\ chat_pc' = "tool"
  /\ UNCHANGED <<iteration, tool_uses, model_calls, fallback_calls, tool_vars>>

\* lines 183-190: the tool result is serialised and kept
ChatToolReturns ==
  /\ chat_pc = "tool"
  /\ tool_uses' = tool_uses - 1
  /\ chat_pc' = "tools"
  /\ UNCHANGED <<iteration, model_calls, fallback_calls, progress_events,
                 result_events, last_event, result_content, tool_vars>>

\* lines 183-189 and 227-228: _execute_tool or json.dumps raises an Exception
ChatToolRaises ==
  /\ chat_pc = "tool"
  /\ YieldResult("error")
  /\ chat_pc' = "done"
  /\ UNCHANGED <<iteration, tool_uses, model_calls, fallback_calls, tool_vars>>

\* lines 192-200
ChatToolsDone ==
  /\ chat_pc = "tools" /\ tool_uses = 0
  /\ YieldProgress
  /\ chat_pc' = "loop"
  /\ UNCHANGED <<iteration, tool_uses, model_calls, fallback_calls, tool_vars>>

\* lines 115 and 216
ChatLoopExhausted ==
  /\ chat_pc = "loop"
  /\ ~ LoopContinues(iteration)
  /\ YieldProgress
  /\ chat_pc' = "fallback"
  /\ UNCHANGED <<iteration, tool_uses, model_calls, fallback_calls, tool_vars>>

\* lines 219-225 and 63-103: _get_fallback_response returns a text, or None
\* when its call fails or has no text; either way one result is yielded
ChatFallback ==
  /\ chat_pc = "fallback"
  /\ fallback_calls' = fallback_calls + 1
  /\ \E content \in {"fallback", "apology"} : YieldResult(content)
  /\ chat_pc' = "done"
  /\ UNCHANGED <<iteration, tool_uses, model_calls, tool_vars>>

NextChat ==
  \/ ChatStart
  \/ ChatIterate
  \/ ChatModelAnswers
  \/ ChatModelRequestsTools
  \/ ChatModelCallRaises
  \/ ChatAnnounceTool
  \/ ChatToolReturns
  \/ ChatToolRaises
  \/ ChatToolsDone
  \/ ChatLoopExhausted
  \/ ChatFallback

\* the consumer keeps iterating the generator and every await returns
SpecChat == Init /\ [][NextChat]_vars /\ WF_vars(NextChat)


(* ------------------------- auxiliary operators ------------------------- *)
RECURSIVE SumAmounts(_, _, _)
\* total of the ledger amounts whose field `side` (from / to) is `name`
SumAmounts(ldg, side, name) ==
  IF ldg = <<>> THEN 0
  ELSE (IF (IF side = "from" THEN ldg[1].from ELSE ldg[1].to) = name
        THEN ldg[1].amount ELSE 0)
       + SumAmounts(Tail(ldg), side, name)

RECURSIVE SumLedger(_)
SumLedger(ldg) == IF ldg = <<>> THEN 0 ELSE ldg[1].amount + SumLedger(Tail(ldg))

RECURSIVE SumOwed(_, _)
\* total of needs_to_pay (or needs_to_receive) over player_balances
SumOwed(pb, field) ==
  IF pb = <<>> THEN 0
  ELSE (IF field = "needs_to_pay" THEN pb[1].value.needs_to_pay
        ELSE pb[1].value.needs_to_receive)
       + SumOwed(Tail(pb), field)

Names(xs) == {xs[j].name : j \in 1..Len(xs)}

HasRawStat ==
  \E j \in 1..Len(players) :
    \E k \in 1..Len(players[j].value) : players[j].value[k].value.tag = "str"

\* sum of a field over the players with a non-integer value counted as 0
RECURSIVE SumIntsOnly(_)
SumIntsOnly(vs) ==
  IF vs = <<>> THEN 0
  ELSE (IF vs[1].tag = "int" THEN vs[1].val ELSE 0) + SumIntsOnly(Tail(vs))

\* the caller-visible instruction format of the interface description
ExpectedLine(payer_name, amount, receiver_name) ==
  payer_name \o <<":"," ","t","r","a","n","s","f","e","r"," ">> \o py_str(amount) \o <<" ","t","o"," ">> \o receiver_name

(* ------------------------------- claims -------------------------------- *)

\* C1: for every input text in which the parser recognizes no player name,
\* execute returns success = false, an empty transfers list and a non-empty
\* error saying that no player data was found.
C1_NoPlayersReported ==
  (pc = "returned" /\ session_data # None /\ players = <<>>) =>
    /\ {"success", "error", "transfers"} \subseteq returned.keys
    /\ returned.success = FALSE
    /\ returned.transfers = <<>>
    /\ returned.error = <<"No player data found in the session data">>

\* C2: when a stat line carries a value that is not an integer, execute
\* returns success = true and the totals count that field as 0.
C2_MalformedFieldCountsAsZero ==
  (pc = "returned" /\ HasRawStat) =>
    /\ returned.success = TRUE
    /\ returned.session_summary.total_loot
         = SumIntsOnly(FieldValues(players, K_loot))
    /\ returned.session_summary.total_supplies
         = SumIntsOnly(FieldValues(players, K_supplies))

C3Loot == <<300, 0, 0>>
C3Players(balances) ==
  PlayerMap(3, [j \in 1..3 |-> <<C3Loot[j], 0, balances[j]>>])
C3Transfers ==
  << <<"A",":"," ","t","r","a","n","s","f","e","r"," ","1","0","0"," ","t","o"," ","B">>, <<"A",":"," ","t","r","a","n","s","f","e","r"," ","1","0","0"," ","t","o"," ","C">> >>
C3Totals == net_profit = 300 /\ fair_share.num = 100 * fair_share.den

\* C3 as stated: loot A=300, B=0, C=0, all supplies 0 and all balances 0 give
\* net_profit 300, fair_share 100 and the two transfers A->B 100, A->C 100.
C3_ZeroBalancesTwoTransfers ==
  (pc = "summary" /\ players = C3Players(<<0, 0, 0>>)) =>
    C3Totals /\ transfers = C3Transfers

\* C3 amended: with the same loot and supplies and balances A=300, B=0, C=0
\* the engine computes net_profit 300 and fair_share 100 and emits exactly
\* 'A: transfer 100 to B' then 'A: transfer 100 to C'; with all balances 0
\* every player is a receiver and no transfer is emitted.
C3_LootBalancesTwoTransfers ==
  /\ (pc = "summary" /\ players = C3Players(<<300, 0, 0>>)) =>
       C3Totals /\ transfers = C3Transfers
  /\ (pc = "summary" /\ players = C3Players(<<0, 0, 0>>)) =>
       C3Totals /\ transfers = <<>>

C3_Witness ==
  pc = "summary" /\ players = C3Players(<<300, 0, 0>>) /\ Len(transfers) = 2

\* C4: every emitted transfer carries an integer amount strictly greater
\* than 0, and no 'transfer 0' line is emitted.
C4_TransferAmountsPositive ==
  \A j \in 1..Len(ledger) :
    /\ ledger[j].amount > 0
    /\ transfers[j] # ExpectedLine(ledger[j].from, 0, ledger[j].to)

\* C5: no transfer names the same player as payer and receiver; a player is
\* in at most one of the payer and receiver lists, and a player whose delta
\* is zero is in neither.
C5_NoSelfTransfer ==
  pc \in {"match", "summary"} =>
    /\ \A j \in 1..Len(ledger) : ledger[j].from # ledger[j].to
    /\ Names(payers) \cap Names(receivers) = {}
    /\ \A j \in 1..Len(players) :
         Difference(net_profit, num_players,
                    get(players[j].value, K_balance, IntV(0)).val) = 0
           => players[j].key \notin Names(payers) \cup Names(receivers)

C5_Witness ==
  /\ pc = "summary" /\ Len(ledger) > 0
  /\ \E j \in 1..Len(player_balances) :
       /\ player_balances[j].value.needs_to_pay = 0
       /\ player_balances[j].value.needs_to_receive = 0

\* C6: the amounts paid by each payer sum to at most that payer's owed
\* amount, and the amounts received by each receiver sum to at most that
\* receiver's owed amount (amounts compared as numerators over num_players).
C6_TransfersWithinOwed ==
  pc \in {"match", "summary"} =>
    \A j \in 1..Len(player_balances) :
      /\ num_players * SumAmounts(ledger, "from", player_balances[j].key)
           <= player_balances[j].value.needs_to_pay
      /\ num_players * SumAmounts(ledger, "to", player_balances[j].key)
           <= player_balances[j].value.needs_to_receive

C6_Witness ==
  /\ pc = "summary"
  /\ \E j \in 1..Len(player_balances) :
       /\ SumAmounts(ledger, "from", player_balances[j].key) > 0
       /\ num_players * SumAmounts(ledger, "from", player_balances[j].key)
            < player_balances[j].value.needs_to_pay
  /\ \E j \in 1..Len(player_balances) :
       SumAmounts(ledger, "to", player_balances[j].key) > 0

\* what is left unsettled on each side is less than the number of players
ResidualBelowPlayerCount ==
  /\ SumOwed(player_balances, "needs_to_pay") - num_players * SumLedger(ledger)
       < num_players * num_players
  /\ SumOwed(player_balances, "needs_to_receive")
       - num_players * SumLedger(ledger) < num_players * num_players

BalancesSumToNetProfit ==
  sum(FieldValues(players, K_balance)) = net_profit

\* C7 as stated: after settlement the unsettled amount of the payers and of
\* the receivers is less than the number of players, also when the balances
\* do not sum to net_profit.
C7_ResidualAlwaysBelowPlayerCount ==
  pc = "summary" => ResidualBelowPlayerCount

\* C7 amended: when the balances sum to net_profit, after settlement the
\* unsettled amount of the payers and of the receivers is less than the
\* number of players.
C7_ResidualBelowPlayerCountWhenBalanced ==
  (pc = "summary" /\ BalancesSumToNetProfit) => ResidualBelowPlayerCount

C7_Witness ==
  /\ pc = "summary" /\ BalancesSumToNetProfit
  /\ Len(ledger) > 0
  /\ SumOwed(player_balances, "needs_to_pay")
       > num_players * SumLedger(ledger)

\* C8: execute never raises to its caller; a failure is returned as an
\* object with success = false, the exception message in error, the input
\* echoed back and transfers = [].
C8_ExecuteNeverRaises ==
  /\ pc # "raised"
  /\ (pc = "returned" /\ session_data = None) =>
       /\ returned.keys = {"success", "error", "message", "transfers"}
       /\ returned.success = FALSE
       /\ returned.error = <<"Failed to process loot split: ", NoneLenMessage>>
       /\ returned.message = None
       /\ returned.transfers = <<>>

\* C9: in a two-player map where one player owes an integer amount x > 0
\* and the other is owed x, exactly one transfer is emitted, from the one
\* who owes to the one who is owed, whichever was inserted first.
C9_SingleTransferForTwo ==
  (pc = "summary" /\ Len(players) = 2) =>
    \A a, b \in 1..2 :
      LET owes == player_balances[a].value.needs_to_pay
          owed == player_balances[b].value.needs_to_receive
      IN  (a # b /\ owes > 0 /\ owes % num_players = 0 /\ owed = owes) =>
            transfers = << ExpectedLine(players[a].key, owes \div num_players,
                                        players[b].key) >>

C9_Witness ==
  /\ pc = "summary" /\ Len(players) = 2
  /\ player_balances[2].value.needs_to_pay = 2 * 150
  /\ player_balances[1].value.needs_to_receive = 2 * 150
  /\ transfers = << <<"B",":"," ","t","r","a","n","s","f","e","r"," ","1","5","0"," ","t","o"," ","A">> >>

\* C10: with exactly one player fair_share equals net_profit and no
\* transfer is emitted.
C10_SinglePlayerNoTransfers ==
  (pc = "summary" /\ Len(players) = 1) =>
    /\ fair_share.num = net_profit * fair_share.den
    /\ transfers = <<>>

C10_Witness ==
  /\ pc = "summary" /\ Len(players) = 1
  /\ net_profit # 0
  /\ player_balances[1].value.needs_to_pay > 0

\* position of a name in the player map (insertion order)
InsertionIndex(name) == CHOOSE j \in 1..Len(players) : players[j].key = name

OwedAtStart(name, field) ==
  LET pb == Lookup(player_balances, name)
  IN  IF field = "needs_to_pay" THEN pb.needs_to_pay ELSE pb.needs_to_receive

\* xs lists exactly the players that owe (are owed) something, larger
\* amounts first and equal amounts in insertion order
OrderedByOwed(xs, field) ==
  /\ Names(xs) = {player_balances[j].key : j \in
                    {k \in 1..Len(player_balances) :
                       OwedAtStart(player_balances[k].key, field) > 0}}
  /\ \A a, b \in 1..Len(xs) :
       a < b =>
         \/ OwedAtStart(xs[a].name, field) > OwedAtStart(xs[b].name, field)
         \/ /\ OwedAtStart(xs[a].name, field) = OwedAtStart(xs[b].name, field)
            /\ InsertionIndex(xs[a].name) < InsertionIndex(xs[b].name)

PositionIn(xs, name) == CHOOSE j \in 1..Len(xs) : xs[j].name = name

\* C11: payers and receivers are matched in descending order of owed
\* amount, equal amounts in insertion order, so the transfer list follows
\* that order: it starts with the first payer and the first receiver and
\* never goes back to an earlier payer or receiver.
C11_MatchedInSortedOrder ==
  pc \in {"match", "summary"} =>
    /\ OrderedByOwed(payers, "needs_to_pay")
    /\ OrderedByOwed(receivers, "needs_to_receive")
    /\ Len(ledger) > 0 =>
         /\ ledger[1].from = payers[1].name
         /\ ledger[1].to = receivers[1].name
    /\ \A j \in 1..(Len(ledger) - 1) :
         /\ PositionIn(payers, ledger[j].from)
              <= PositionIn(payers, ledger[j + 1].from)
         /\ PositionIn(receivers, ledger[j].to)
              <= PositionIn(receivers, ledger[j + 1].to)

C11_Witness ==
  /\ pc = "summary" /\ Len(ledger) >= 2
  /\ \E a, b \in 1..Len(receivers) :
       /\ a < b
       /\ InsertionIndex(receivers[a].name) > InsertionIndex(receivers[b].name)

IntegerFairShare == num_players > 0 /\ net_profit % num_players = 0

\* the remaining amount of every entry of xs is its owed amount minus the
\* transfers written for it so far
RemaindersExact(xs, field, side) ==
  \A j \in 1..Len(xs) :
    xs[j].amount = OwedAtStart(xs[j].name, field)
                     - num_players * SumAmounts(ledger, side, xs[j].name)

\* C16: when the balances sum to net_profit and fair_share is an integer,
\* the remainders are decremented by exactly the written amounts, and
\* applying all emitted transfers leaves every player's balance equal to
\* fair_share.
C16_SettlesToFairShare ==
  (pc \in {"match", "summary"} /\ BalancesSumToNetProfit /\ IntegerFairShare) =>
    /\ RemaindersExact(payers, "needs_to_pay", "from")
    /\ RemaindersExact(receivers, "needs_to_receive", "to")
    /\ pc = "summary" =>
         \A j \in 1..Len(player_balances) :
           LET name == player_balances[j].key
           IN  num_players * (player_balances[j].value.current_balance
                                - SumAmounts(ledger, "from", name)
                                + SumAmounts(ledger, "to", name))
                 = net_profit

C16_Witness ==
  /\ pc = "summary" /\ BalancesSumToNetProfit /\ IntegerFairShare
  /\ net_profit > 0
  /\ \E j \in 1..Len(player_balances) :
       /\ player_balances[j].value.needs_to_pay > 0
       /\ num_players * SumAmounts(ledger, "from", player_balances[j].key)
            = player_balances[j].value.needs_to_pay
  /\ \E j \in 1..Len(player_balances) :
       /\ player_balances[j].value.needs_to_receive > 0
       /\ num_players * SumAmounts(ledger, "to", player_balances[j].key)
            = player_balances[j].value.needs_to_receive

\* the loop has run at most payer_idx + receiver_idx times, and can only
\* run while both pointers are inside their lists
IterationsBounded ==
  pc \in {"match", "summary"} =>
    /\ payer_idx <= Len(payers) /\ receiver_idx <= Len(receivers)
    /\ Len(ledger) <= payer_idx + receiver_idx
    /\ Len(transfers) = Len(ledger)
    /\ IF payers = <<>> \/ receivers = <<>>
       THEN Len(ledger) = 0
       ELSE Len(ledger) <= Len(payers) + Len(receivers) - 1

\* C17: every iteration of the matching loop advances the payer pointer or
\* the receiver pointer, so the loop ends after at most
\* |payers| + |receivers| - 1 iterations and emits at most that many
\* transfers.
C17_LoopAdvancesAndIsBounded ==
  /\ []IterationsBounded
  /\ [][(pc = "match" /\ pc' = "match") =>
          /\ payer_idx' >= payer_idx /\ receiver_idx' >= receiver_idx
          /\ payer_idx' + receiver_idx' > payer_idx + receiver_idx]_vars

C17_Witness ==
  /\ pc = "summary"
  /\ Len(payers) + Len(receivers) >= 3
  /\ Len(ledger) = Len(payers) + Len(receivers) - 1

(* ------------------------ line classification -------------------------- *)
\* the keywords read without regard to case
StartsWithAnyCase(line, prefix) == startswith(lower(line), lower(prefix))

HeaderLineAnyCase(line) ==
  \/ \E p \in {SessionDataPrefix, SessionPrefix, LootTypePrefix} :
       StartsWithAnyCase(line, p)
  \/ contains(lower(line), DatePattern)
  \/ time_pattern(line)

StatLineAnyCase(line) == \E p \in StatPrefixes : StartsWithAnyCase(line, p)

\* a line of the loop is being classified
AtLine == pc = "parse" /\ line_no <= Len(lines)

\* a digits-only or leader-marker token seen while still in the header
SpuriousToken(line) == in_session_header /\ (isdigit(line) \/ line = LeaderWord)

\* the record of the current player takes the field of the stat line; no
\* other record changes and no record is added
StoredInCurrentOnly ==
  LET kv == split1(CurLine, ":")
      key == lower(strip(kv[1]))
  IN  /\ current_player' = current_player
      /\ keys(players') = keys(players)
      /\ HasKey(Lookup(players', current_player), key)
      /\ \A j \in 1..Len(players) :
           players[j].key # current_player => players'[j] = players[j]

NoSessionKeyword(line) ==
  ~ \E k \in {<<"s","e","s","s","i","o","n">>, <<"l","o","o","t"," ","t","y","p","e">>, <<"f","r","o","m"," ","2","0">>} : contains(lower(line), k)

TotalLine(line) ==
  ~ IsSessionInfo(line) /\ \E p \in TotalPrefixes : startswith(line, p)

RecordedInHeader ==
  /\ session_info' = session_info \o CurLine \o <<"\n">>
  /\ players' = players

\* C13 as stated: a Loot:/Supplies:/Balance: line is recorded into the
\* header lines only while the flag is set and no player has been opened;
\* once a player has been opened every such line goes to the current
\* player's record.
C13_TotalsOnlyBeforeFirstPlayer ==
  [][(AtLine /\ TotalLine(CurLine)) =>
       IF players = <<>>
       THEN in_session_header => RecordedInHeader
       ELSE /\ session_info' = session_info
            /\ StoredInCurrentOnly]_vars

\* C13 amended: a Loot:/Supplies:/Balance: line is recorded into the header
\* lines exactly when the header flag is set, players opened or not, and
\* leaves the flag set; with the flag clear it is stored in the current
\* player's record (dropped when there is none) and the header lines are
\* unchanged; every header line sets the flag.
C13_TotalsWhileHeaderFlagSet ==
  [][/\ (AtLine /\ TotalLine(CurLine)) =>
          IF in_session_header
          THEN RecordedInHeader /\ in_session_header'
          ELSE /\ session_info' = session_info
               /\ IF current_player # None
                  THEN StoredInCurrentOnly
                  ELSE players' = players
     /\ (AtLine /\ IsSessionInfo(CurLine)) =>
          in_session_header' /\ players' = players]_vars

C13_Witness ==
  /\ pc = "parse" /\ players # <<>> /\ in_session_header
  /\ line_no > 1 /\ line_no - 1 <= Len(lines)
  /\ TotalLine(strip(lines[line_no - 1]))
  /\ Lookup(players, current_player) = <<>>

(* ----------------- the parse retold from the lines alone ---------------- *)
RECURSIVE HeaderAfter(_, _)
\* the header flag after the first k lines of ls
HeaderAfter(ls, k) ==
  IF k = 0 THEN TRUE
  ELSE LET line == strip(ls[k])
           before == HeaderAfter(ls, k - 1)
       IN  IF IsSessionInfo(line) THEN TRUE
           ELSE IF IsStatLine(line)
                THEN before /\ (\E p \in TotalPrefixes : startswith(line, p))
                ELSE IF line = <<>> \/ ~ NoSessionKeyword(line)
                        \/ line = LeaderWord \/ (before /\ isdigit(line))
                     THEN before
                     ELSE FALSE

\* line j of ls is a player-name line that opens a record
OpensRecordAt(ls, j) ==
  LET line == strip(ls[j])
  IN  /\ line # <<>> /\ line # LeaderWord
      /\ ~ IsSessionInfo(line) /\ ~ IsStatLine(line)
      /\ NoSessionKeyword(line)
      /\ ~ (HeaderAfter(ls, j - 1) /\ isdigit(line))
      /\ Len(strip(replace(line, LeaderTag, <<>>))) > 1

NameAt(ls, j) == strip(replace(strip(ls[j]), LeaderTag, <<>>))

\* line j of ls is a stat line attributed to a player
PlayerStatAt(ls, j) ==
  LET line == strip(ls[j])
  IN  /\ ~ IsSessionInfo(line) /\ IsStatLine(line)
      /\ ~ (HeaderAfter(ls, j - 1)
            /\ \E p \in TotalPrefixes : startswith(line, p))

FieldAt(ls, j) == lower(strip(split1(strip(ls[j]), ":")[1]))

\* the last line up to k that opened a record, 0 when there is none
LastOpenedUpTo(ls, k) ==
  LET opened == {j \in 1..k : OpensRecordAt(ls, j)}
  IN  IF opened = {} THEN 0
      ELSE CHOOSE j \in opened : \A i \in opened : i <= j

\* the stat lines among the first k that follow the last line opening name
FieldLinesOf(ls, k, name) ==
  {j \in 1..k :
     /\ PlayerStatAt(ls, j)
     /\ LastOpenedUpTo(ls, j) # 0
     /\ NameAt(ls, LastOpenedUpTo(ls, j)) = name
     /\ \A i \in (j + 1)..k : ~ (OpensRecordAt(ls, i) /\ NameAt(ls, i) = name)}

\* C14: a player record exists only for the names of the player-name lines
\* read so far, and the record of a name holds exactly the stat fields that
\* followed the last player-name line with that name, each with the value
\* of its last such line.
C14_RecordsFromLastNameLine ==
  pc = "parse" =>
    LET k == line_no - 1
    IN  /\ {players[j].key : j \in 1..Len(players)}
             = {NameAt(lines, j) : j \in {i \in 1..k : OpensRecordAt(lines, i)}}
        /\ \A p \in 1..Len(players) :
             LET record == players[p].value
                 field_lines == FieldLinesOf(lines, k, players[p].key)
             IN  /\ {record[f].key : f \in 1..Len(record)}
                      = {FieldAt(lines, j) : j \in field_lines}
                 /\ \A j \in field_lines :
                      (\A i \in field_lines :
                         FieldAt(lines, i) = FieldAt(lines, j) => i <= j) =>
                        Lookup(record, FieldAt(lines, j))
                          = ParseValue(split1(strip(lines[j]), ":")[2])

C14_Witness ==
  /\ pc = "parse" /\ line_no >= 4 /\ Len(lines) >= 3
  /\ lines[1] = lines[3] /\ OpensRecordAt(lines, 1)
  /\ PlayerStatAt(lines, 2)
  /\ Lookup(players, NameAt(lines, 1)) = <<>>

\* C15: the keywords are recognised in any case: a line starting with a
\* stat keyword or a header keyword in lower or upper case never opens a
\* player record, and such a header line is recorded in the header lines.
C15_KeywordsInAnyCase ==
  pc = "parse" =>
    /\ \A j \in 1..Len(players) :
         /\ ~ StatLineAnyCase(players[j].key)
         /\ ~ HeaderLineAnyCase(players[j].key)
    /\ \A j \in 1..(line_no - 1) :
         HeaderLineAnyCase(strip(lines[j])) =>
           contains(session_info, strip(lines[j]))

(* ------------------------------- chat ----------------------------------- *)
ChatBounded ==
  /\ model_calls <= max_iterations
  /\ fallback_calls <= 1
  /\ fallback_calls = 1 => model_calls = max_iterations
  /\ result_events <= 1
  /\ result_events = 1 => chat_pc = "done"
  /\ chat_pc = "done" => result_events = 1 /\ last_event = "result"
  /\ result_content \in {"fallback", "apology"} <=> fallback_calls = 1

\* C18: a run of chat makes at most max_iterations model calls in the tool
\* loop and at most one fallback call, it ends, and when it has ended it
\* has yielded exactly one event of type result, its last event.
C18_ChatEndsWithOneResult ==
  /\ []ChatBounded
  /\ <>(chat_pc = "done")

C18_Witness ==
  /\ chat_pc = "done"
  /\ model_calls = max_iterations /\ fallback_calls = 1
  /\ result_events = 1 /\ last_event = "result"
  /\ progress_events > 3 * max_iterations
  /\ result_content = "apology"

====
